---------------------------- MODULE Spec2Model ----------------------------
(***************************************************************************)
(* Parcel change detection (scripts/detect_changes.py): the snapshot       *)
(* indexer to_index, the diff engine compare, the watchlist filter         *)
(* filter_to_watchlist and the run orchestrator main with its baseline and *)
(* summary files; and the polling loop of the Telegram query bot           *)
(* (scripts/telegram_query_bot.py) with its offset file.                   *)
(*                                                                         *)
(* Representation of Python/JSON values:                                   *)
(*   None / JSON null        [t |-> "none"]                                *)
(*   a string                [t |-> "str", s |-> ...]                      *)
(*   an integer              [t |-> "int", n |-> ...]                      *)
(* Parcel identifiers are digit strings, held as sequences of digits 0..9  *)
(* so that str() and the code-point order used by sorted() are computed    *)
(* and not assumed.  Attribute values are TLA+ strings.  A dict is a       *)
(* function on its set of keys.                                            *)
(***************************************************************************)
EXTENDS Integers, Sequences, FiniteSets, TLC

VARIABLES
    currentFile,      \* args.current on disk
    baselineFile,     \* args.baseline on disk
    summaryFile,      \* args.summary on disk
    watchlistFile,    \* args.watchlist on disk
    sample_size,      \* args.sample_size
    pc,               \* position of main()
    exitCode,         \* how the last run of the script ended
    watchlist,        \* main: watchlist
    current_geojson,  \* main: current_geojson
    current_idx,      \* main: current_idx
    previous_geojson, \* main: previous_geojson
    previous_idx,     \* main: previous_idx
    diff_all,         \* main: (added_all, removed_all, changed_all)
    diff,             \* main: (added, removed, changed)
    lastDone,         \* history: what the last run that ran to its end read and wrote
    cut,              \* history: the disk and position at the last interruption
    offsetFile,       \* telegram_query_bot: OFFSET_FILE on disk
    serverQueue,      \* the updates the Telegram server holds unconfirmed
    nextId,           \* the update_id the server gives the next update
    botPc,            \* position of the bot's main()
    offset,           \* bot main: offset
    updates,          \* bot main: the rest of the batch the for loop walks
    upd,              \* bot main: upd
    restarts,         \* how often the bot process has been started again
    handled,          \* history: per update_id, how often its handler was called
    raised,           \* history: the update_ids whose handler raised
    skipped,          \* history: ids left in a batch a handler's exception ended
    refetched         \* history: skipped ids that a later poll returned

\* the variables of detect_changes.py
detect == <<currentFile, baselineFile, summaryFile, watchlistFile, sample_size, pc,
            exitCode, watchlist, current_geojson, current_idx, previous_geojson,
            previous_idx, diff_all, diff, lastDone, cut>>

\* the variables of telegram_query_bot.py
bot == <<offsetFile, serverQueue, nextId, botPc, offset, updates, upd, restarts,
         handled, raised, skipped, refetched>>

vars == <<detect, bot>>

files == <<currentFile, baselineFile, summaryFile, watchlistFile, sample_size>>
locals == <<watchlist, current_geojson, current_idx, previous_geojson,
            previous_idx, diff_all, diff>>

-----------------------------------------------------------------------------
(* Bounds of the model *)

\* longest feature list of a dataset in the single-run specification
MaxFeatures == 2
\* longest feature list of a dataset in the multi-run specification
MaxRunFeatures == 1
\* number of updates the Telegram server receives
MaxUpdates == 3
\* number of times the bot process is stopped and started again
MaxRestarts == 1

-----------------------------------------------------------------------------
(* Values *)

None == [t |-> "none"]
StrV(s) == [t |-> "str", s |-> s]
IntV(n) == [t |-> "int", n |-> n]

Range(f) == {f[x] : x \in DOMAIN f}

\* dict.get(k): the value under k, None when k is missing
Get(d, k) == IF k \in DOMAIN d THEN d[k] ELSE None

\* d[k] = v
Put(d, k, v) == [x \in (DOMAIN d) \cup {k} |-> IF x = k THEN v ELSE d[x]]

\* Python truth value of a JSON scalar: None, "" and 0 are false
Truthy(v) ==
    CASE v.t = "none" -> FALSE
      [] v.t = "str"  -> v.s # <<>>
      [] v.t = "int"  -> v.n # 0

RECURSIVE Digits(_)
\* the decimal digits of a natural number
Digits(n) == IF n < 10 THEN <<n>> ELSE Digits(n \div 10) \o <<n % 10>>

\* str(v) of a string or of a non-negative integer
Str(v) == IF v.t = "str" THEN v.s ELSE Digits(v.n)

RECURSIVE LexLess(_, _)
\* a < b for Python strings: code point by code point, a proper prefix first
LexLess(a, b) ==
    IF b = <<>> THEN FALSE
    ELSE IF a = <<>> THEN TRUE
    ELSE IF Head(a) # Head(b) THEN Head(a) < Head(b)
    ELSE LexLess(Tail(a), Tail(b))

RECURSIVE NumberOf(_)
\* int(s) of a digit string
NumberOf(s) == IF s = <<>> THEN 0 ELSE 10 * NumberOf(SubSeq(s, 1, Len(s) - 1)) + s[Len(s)]

RECURSIVE Sorted_Numeric(_)
\* sorted(S, key=int): the ids in numeric order
Sorted_Numeric(S) ==
    IF S = {} THEN <<>>
    ELSE LET m == CHOOSE x \in S : \A y \in S \ {x} : NumberOf(x) <= NumberOf(y)
         IN <<m>> \o Sorted_Numeric(S \ {m})

RECURSIVE Sorted(_)
\* sorted(S) of a set of strings
Sorted(S) ==
    IF S = {} THEN <<>>
    ELSE LET m == CHOOSE x \in S : \A y \in S \ {x} : LexLess(x, y)
         IN <<m>> \o Sorted(S \ {m})

\* xs[:n]: the first n entries, and for a negative n all but the last -n
Prefix(xs, n) ==
    LET stop == IF n < 0 THEN Len(xs) + n ELSE n
    IN SubSeq(xs, 1, IF stop < 0 THEN 0 ELSE IF stop < Len(xs) THEN stop ELSE Len(xs))

-----------------------------------------------------------------------------
(* The snapshot indexer *)

COMPARE_FIELDS ==
    <<"STREET", "CITY_STATE", "ZIPCODE", "PROP_STREET", "PROP_CITY", "PROP_ZIP",
      "NAME_ONE">>

\* position of a geometry member name in sort_keys order
KeyRank(name) == IF name = "coordinates" THEN 1 ELSE 2

RECURSIVE SortKeys(_)
\* the members of a JSON object in sort_keys=True order
SortKeys(members) ==
    IF members = <<>> THEN <<>>
    ELSE LET i == CHOOSE j \in 1..Len(members) :
                      \A k \in 1..Len(members) :
                          KeyRank(members[j][1]) <= KeyRank(members[k][1])
             rest == [k \in 1..(Len(members) - 1) |->
                          IF k < i THEN members[k] ELSE members[k + 1]]
         IN <<members[i]>> \o SortKeys(rest)

RECURSIVE Tokens(_)
\* the members of a JSON object written out as name, value, name, value, ...
Tokens(members) ==
    IF members = <<>> THEN <<>>
    ELSE <<Head(members)[1], Head(members)[2]>> \o Tokens(Tail(members))

\* json.dumps(geom, sort_keys=True, separators=(",", ":")), as a token list
JsonDumps(geom) ==
    IF geom.t = "none" THEN <<"null">>
    ELSE <<"{">> \o Tokens(SortKeys(geom.members)) \o <<"}">>

\* hashlib.sha1(payload).hexdigest(), taken to be free of collisions
Sha1(payload) == [sha1 |-> payload]

geometry_hash(feature) == Sha1(JsonDumps(Get(feature, "geometry")))

\* the loop body with index.setdefault(...): the first feature of a key is kept
IndexFeature_FirstWins(index, ft) ==
    LET props == ft.properties
        parcel_id == Get(props, "PARCEL_ID")
        snapshot ==
            [parcel_id |-> Str(parcel_id),
             geometry_hash |-> geometry_hash(ft),
             properties |-> [k \in Range(COMPARE_FIELDS) |-> Get(props, k)]]
    IN IF ~Truthy(parcel_id) \/ Str(parcel_id) \in DOMAIN index THEN index
       ELSE Put(index, Str(parcel_id), snapshot)

\* the loop pass with the empty string in place of a missing property
IndexFeature_MissingAsEmpty(index, ft) ==
    LET props == ft.properties
        parcel_id == Get(props, "PARCEL_ID")
        snapshot ==
            [parcel_id |-> Str(parcel_id),
             geometry_hash |-> geometry_hash(ft),
             properties |-> [k \in Range(COMPARE_FIELDS) |->
                                IF k \in DOMAIN props THEN props[k] ELSE StrV("")]]
    IN IF ~Truthy(parcel_id) THEN index
       ELSE Put(index, Str(parcel_id), snapshot)

\* lines 64-73: one pass of the loop of to_index over the feature ft
IndexFeature(index, ft) ==
    LET props == ft.properties
        parcel_id == Get(props, "PARCEL_ID")
        snapshot ==
            [parcel_id |-> Str(parcel_id),
             geometry_hash |-> geometry_hash(ft),
             properties |-> [k \in Range(COMPARE_FIELDS) |-> Get(props, k)]]
    IN IF ~Truthy(parcel_id) THEN index
       ELSE Put(index, Str(parcel_id), snapshot)

RECURSIVE IndexFeatures(_, _)
IndexFeatures(features, index) ==
    IF features = <<>> THEN index
    ELSE IndexFeatures(Tail(features), IndexFeature(index, Head(features)))

to_index(geojson) == IndexFeatures(geojson.features, <<>>)

-----------------------------------------------------------------------------
(* The diff engine *)

\* the field differences with before and after exchanged
FieldChanges_Swapped(prev, curr) ==
    LET differing == {k \in Range(COMPARE_FIELDS) :
                          Get(prev.properties, k) # Get(curr.properties, k)}
        geom == IF prev.geometry_hash # curr.geometry_hash THEN {"geometry"} ELSE {}
    IN [k \in geom \cup differing |->
            IF k = "geometry"
            THEN [before |-> curr.geometry_hash, after |-> prev.geometry_hash]
            ELSE [before |-> Get(curr.properties, k),
                  after |-> Get(prev.properties, k)]]

\* lines 88-103: the field differences of one parcel present in both snapshots
FieldChanges(prev, curr) ==
    LET differing == {k \in Range(COMPARE_FIELDS) :
                          Get(prev.properties, k) # Get(curr.properties, k)}
        geom == IF prev.geometry_hash # curr.geometry_hash THEN {"geometry"} ELSE {}
    IN [k \in geom \cup differing |->
            IF k = "geometry"
            THEN [before |-> prev.geometry_hash, after |-> curr.geometry_hash]
            ELSE [before |-> Get(prev.properties, k),
                  after |-> Get(curr.properties, k)]]

RECURSIVE Changed_NoGuard(_, _, _)
\* the loop without the test of line 105: every common id gets an entry
Changed_NoGuard(pids, previous, current) ==
    IF pids = <<>> THEN <<>>
    ELSE <<[parcel_id |-> Head(pids),
            changes |-> FieldChanges(previous[Head(pids)], current[Head(pids)])]>>
         \o Changed_NoGuard(Tail(pids), previous, current)

RECURSIVE Changed(_, _, _)
\* lines 86-106: the loop over the sorted common ids
Changed(pids, previous, current) ==
    IF pids = <<>> THEN <<>>
    ELSE LET pid == Head(pids)
             field_changes == FieldChanges(previous[pid], current[pid])
             rest == Changed(Tail(pids), previous, current)
         IN IF DOMAIN field_changes # {}
            THEN <<[parcel_id |-> pid, changes |-> field_changes]>> \o rest
            ELSE rest

compare(previous, current) ==
    LET prev_ids == DOMAIN previous
        curr_ids == DOMAIN current
    IN [added |-> Sorted(curr_ids \ prev_ids),
        removed |-> Sorted(prev_ids \ curr_ids),
        changed |-> Changed(Sorted(prev_ids \cap curr_ids), previous, current)]

-----------------------------------------------------------------------------
(* The watchlist *)

\* lines 46-52 on one line of the file: what the line adds to ids
WatchlistLine(raw) ==
    IF raw.blank \/ raw.comment THEN {} ELSE {raw.text}

load_watchlist(file) ==
    IF file.kind = "absent" THEN {}
    ELSE UNION {WatchlistLine(file.lines[i]) : i \in 1..Len(file.lines)}

\* the filter without the test of line 117: an empty watchlist lets nothing pass
filter_to_watchlist_NoEmptyTest(added, removed, changed, wl) ==
    LET InList(pid) == pid \in wl
        EntryInList(entry) == entry.parcel_id \in wl
    IN [added |-> SelectSeq(added, InList),
        removed |-> SelectSeq(removed, InList),
        changed |-> SelectSeq(changed, EntryInList)]

\* the filter with line 122 left out: the modified entries pass unfiltered
filter_to_watchlist_ChangedKept(added, removed, changed, wl) ==
    IF wl = {} THEN [added |-> added, removed |-> removed, changed |-> changed]
    ELSE LET InList(pid) == pid \in wl
         IN [added |-> SelectSeq(added, InList),
             removed |-> SelectSeq(removed, InList),
             changed |-> changed]

filter_to_watchlist(added, removed, changed, wl) ==
    IF wl = {} THEN [added |-> added, removed |-> removed, changed |-> changed]
    ELSE LET InList(pid) == pid \in wl
             EntryInList(entry) == entry.parcel_id \in wl
         IN [added |-> SelectSeq(added, InList),
             removed |-> SelectSeq(removed, InList),
             changed |-> SelectSeq(changed, EntryInList)]

-----------------------------------------------------------------------------
(* Files and inputs *)

Absent == [kind |-> "absent"]
\* a file json.loads rejects, such as one cut short while it was written
BadJson == [kind |-> "badjson"]
\* a file that parses, but not to a feature collection: to_index raises on it
BadShape == [kind |-> "badshape"]
GeoJson(features) == [kind |-> "geojson", features |-> features]
WatchFile(lines) == [kind |-> "lines", lines |-> lines]
SummaryFile(summary) == [kind |-> "json", data |-> summary]
\* a summary file cut short while it was written
PartialSummary == [kind |-> "partial"]

Geometry(members) == [t |-> "obj", members |-> members]
Polygon1 == Geometry(<<<<"type", "Polygon">>, <<"coordinates", "ring1">>>>)
\* Polygon1 with its members written in the other order
Polygon1Swapped == Geometry(<<<<"coordinates", "ring1">>, <<"type", "Polygon">>>>)
Polygon2 == Geometry(<<<<"type", "Polygon">>, <<"coordinates", "ring2">>>>)

Feature(props, geom) == [type |-> "Feature", properties |-> props, geometry |-> geom]

Id9 == <<9>>
Id10 == <<1, 0>>

\* the features the datasets of one run are built from: two parcels, each in two
\* versions, and two features without a usable PARCEL_ID
Features ==
    { Feature([PARCEL_ID |-> StrV(Id9), STREET |-> StrV("Main St")], Polygon1),
      Feature([PARCEL_ID |-> IntV(9), STREET |-> StrV("1st St"),
               NAME_ONE |-> StrV("")], Polygon1Swapped),
      Feature([PARCEL_ID |-> IntV(10), STREET |-> StrV("Main St")], Polygon2),
      Feature([PARCEL_ID |-> StrV(Id10), STREET |-> StrV("Main St")], None),
      Feature([PARCEL_ID |-> StrV(<<>>), STREET |-> StrV("Main St")], Polygon1),
      Feature([STREET |-> StrV("1st St")], Polygon2) }

\* the features the datasets of a series of runs are built from
RunFeatures ==
    { Feature([PARCEL_ID |-> StrV(Id9), STREET |-> StrV("Main St")], Polygon1),
      Feature([PARCEL_ID |-> StrV(Id9), STREET |-> StrV("1st St")], Polygon1),
      Feature([PARCEL_ID |-> IntV(10)], Polygon2) }

SeqsUpTo(S, n) == UNION {[1..k -> S] : k \in 0..n}

Datasets == {GeoJson(fs) : fs \in SeqsUpTo(Features, MaxFeatures)}
RunDatasets == {GeoJson(fs) : fs \in SeqsUpTo(RunFeatures, MaxRunFeatures)}

Line(text) == [blank |-> FALSE, comment |-> FALSE, text |-> text]
BlankLine == [blank |-> TRUE, comment |-> FALSE, text |-> <<>>]
CommentLine == [blank |-> FALSE, comment |-> TRUE, text |-> <<>>]

\* the watchlist files of a series of runs: none, one without ids, one with an id
WatchFiles ==
    { Absent,
      WatchFile(<<CommentLine, BlankLine>>),
      WatchFile(<<CommentLine, Line(Id9), Line(Id9)>>) }

\* the watchlist files of one run: one parcel watched, both watched
OneRunWatchFiles ==
    { WatchFile(<<CommentLine, Line(Id9), Line(Id9)>>),
      WatchFile(<<Line(Id10), BlankLine, Line(Id9)>>) }

DefaultSampleSize == 10
SampleSizes == {1, DefaultSampleSize}
\* the values of --sample-size, which argparse reads with type=int
SampleSizeArgs == {-1, 0, 1, DefaultSampleSize}

-----------------------------------------------------------------------------
(* main *)

Unset == [t |-> "unset"]
NoDiff == [added |-> <<>>, removed |-> <<>>, changed |-> <<>>]

\* the process ends with the given status and its locals die with it; lines
\* 266-271 turn an exception into status 1
Exit(code) ==
    /\ pc' = "exit"
    /\ exitCode' = code
    /\ watchlist' = {}
    /\ current_geojson' = Unset
    /\ current_idx' = <<>>
    /\ previous_geojson' = Unset
    /\ previous_idx' = <<>>
    /\ diff_all' = NoDiff
    /\ diff' = NoDiff

\* json.loads raises on the file
LoadRaises(file) == file.kind = "badjson"
\* to_index raises on the parsed file
IndexRaises(geojson) == geojson.kind = "badshape"

load_geojson(file) == IF file.kind = "absent" THEN GeoJson(<<>>) ELSE file

Scope(wl) == [watchlist_enabled |-> wl # {}, watchlist_size |-> Cardinality(wl)]

\* the initialization summary with every current parcel counted as added
InitSummary_AllAdded(wl, idx) ==
    [status |-> "initialized",
     scope |-> Scope(wl),
     stats |-> [current_total |-> Cardinality(DOMAIN idx),
                added_count |-> Cardinality(DOMAIN idx),
                removed_count |-> 0,
                changed_count |-> 0]]

\* lines 195-209
InitSummary(wl, idx) ==
    [status |-> "initialized",
     scope |-> Scope(wl),
     stats |-> [current_total |-> Cardinality(DOMAIN idx),
                added_count |-> 0,
                removed_count |-> 0,
                changed_count |-> 0]]

RECURSIVE ParcelIds(_)
\* [x["parcel_id"] for x in entries]
ParcelIds(entries) ==
    IF entries = <<>> THEN <<>>
    ELSE <<Head(entries).parcel_id>> \o ParcelIds(Tail(entries))

\* the summary with len(added_all) where line 230 has len(added), and so on
OkSummary_AllCounts(wl, cidx, pidx, all, flt, n) ==
    [status |-> "ok",
     scope |-> Scope(wl),
     stats |-> [current_total |-> Cardinality(DOMAIN cidx),
                previous_total |-> Cardinality(DOMAIN pidx),
                added_count |-> Len(all.added),
                removed_count |-> Len(all.removed),
                changed_count |-> Len(all.changed),
                all_added_count |-> Len(all.added),
                all_removed_count |-> Len(all.removed),
                all_changed_count |-> Len(all.changed)],
     samples |-> [added |-> Prefix(flt.added, n),
                  removed |-> Prefix(flt.removed, n),
                  changed |-> ParcelIds(Prefix(flt.changed, n))],
     details |-> [added |-> flt.added,
                  removed |-> flt.removed,
                  changed |-> flt.changed]]

\* lines 220-247
OkSummary(wl, cidx, pidx, all, flt, n) ==
    [status |-> "ok",
     scope |-> Scope(wl),
     stats |-> [current_total |-> Cardinality(DOMAIN cidx),
                previous_total |-> Cardinality(DOMAIN pidx),
                added_count |-> Len(flt.added),
                removed_count |-> Len(flt.removed),
                changed_count |-> Len(flt.changed),
                all_added_count |-> Len(all.added),
                all_removed_count |-> Len(all.removed),
                all_changed_count |-> Len(all.changed)],
     samples |-> [added |-> Prefix(flt.added, n),
                  removed |-> Prefix(flt.removed, n),
                  changed |-> ParcelIds(Prefix(flt.changed, n))],
     details |-> [added |-> flt.added,
                  removed |-> flt.removed,
                  changed |-> flt.changed]]

\* main with lines 193-194 moved before line 190: a missing baseline is seeded
\* from the current file before that file is parsed
Main_LoadCurrent_SeedsFirst ==
    /\ pc = "start"
    /\ UNCHANGED <<currentFile, summaryFile, watchlistFile, sample_size, lastDone>>
    /\ baselineFile' = IF baselineFile.kind = "absent" /\ currentFile.kind # "absent"
                       THEN currentFile ELSE baselineFile
    /\ IF \/ currentFile.kind = "absent"
          \/ LoadRaises(currentFile)
          \/ IndexRaises(load_geojson(currentFile))
       THEN Exit("1") /\ cut' = Unset
       ELSE /\ watchlist' = load_watchlist(watchlistFile)
            /\ current_geojson' = load_geojson(currentFile)
            /\ current_idx' = to_index(load_geojson(currentFile))
            /\ pc' = "check_baseline"
            /\ UNCHANGED <<exitCode, previous_geojson, previous_idx, diff_all, diff,
                           cut>>
    /\ UNCHANGED bot

\* lines 183-191: the current file is checked, the watchlist and the current
\* dataset are loaded and indexed
Main_LoadCurrent ==
    /\ pc = "start"
    /\ UNCHANGED <<files, lastDone>>
    /\ IF \/ currentFile.kind = "absent"
          \/ LoadRaises(currentFile)
          \/ IndexRaises(load_geojson(currentFile))
       THEN Exit("1") /\ cut' = Unset
       ELSE /\ watchlist' = load_watchlist(watchlistFile)
            /\ current_geojson' = load_geojson(currentFile)
            /\ current_idx' = to_index(load_geojson(currentFile))
            /\ pc' = "check_baseline"
            /\ UNCHANGED <<exitCode, previous_geojson, previous_idx, diff_all, diff,
                           cut>>
    /\ UNCHANGED bot

\* lines 193-194: no baseline, the current file is copied to it
Main_InitCopy ==
    /\ pc = "check_baseline"
    /\ baselineFile.kind = "absent"
    /\ baselineFile' = currentFile
    /\ pc' = "init_summary"
    /\ UNCHANGED <<currentFile, summaryFile, watchlistFile, sample_size, exitCode,
                   locals, lastDone, cut>>
    /\ UNCHANGED bot

\* lines 195-212: the summary of the initialization run is written
Main_InitSummary ==
    /\ pc = "init_summary"
    /\ summaryFile' = SummaryFile(InitSummary(watchlist, current_idx))
    /\ lastDone' = [path |-> "init", current |-> current_geojson]
    /\ cut' = Unset
    /\ Exit("0")
    /\ UNCHANGED <<currentFile, baselineFile, watchlistFile, sample_size>>
    /\ UNCHANGED bot

\* lines 214-218: the baseline is loaded and indexed, the diff computed and filtered
Main_Compare ==
    /\ pc = "check_baseline"
    /\ baselineFile.kind # "absent"
    /\ UNCHANGED <<files, lastDone>>
    /\ IF LoadRaises(baselineFile) \/ IndexRaises(load_geojson(baselineFile))
       THEN Exit("1") /\ cut' = Unset
       ELSE LET prev == to_index(load_geojson(baselineFile))
                all == compare(prev, current_idx)
            IN /\ previous_geojson' = load_geojson(baselineFile)
               /\ previous_idx' = prev
               /\ diff_all' = all
               /\ diff' = filter_to_watchlist(all.added, all.removed, all.changed,
                                              watchlist)
               /\ pc' = "write_summary"
               /\ UNCHANGED <<exitCode, watchlist, current_geojson, current_idx, cut>>
    /\ UNCHANGED bot

\* lines 249 and 250 exchanged: the baseline is rotated before the summary is
\* written
Main_WriteSummary_RotatesFirst ==
    /\ pc = "write_summary"
    /\ baselineFile' = currentFile
    /\ summaryFile' = SummaryFile(OkSummary(watchlist, current_idx, previous_idx,
                                            diff_all, diff, sample_size))
    /\ pc' = "rotate"
    /\ UNCHANGED <<currentFile, watchlistFile, sample_size, exitCode, locals,
                   lastDone, cut>>
    /\ UNCHANGED bot

\* lines 220-249: the summary is assembled and written
Main_WriteSummary ==
    /\ pc = "write_summary"
    /\ summaryFile' = SummaryFile(OkSummary(watchlist, current_idx, previous_idx,
                                            diff_all, diff, sample_size))
    /\ pc' = "rotate"
    /\ UNCHANGED <<currentFile, baselineFile, watchlistFile, sample_size, exitCode,
                   locals, lastDone, cut>>
    /\ UNCHANGED bot

\* line 250 put under the has_changes test of line 256
Main_Rotate_IfChanges ==
    /\ pc = "rotate"
    /\ baselineFile' = IF Len(diff.added) + Len(diff.removed) + Len(diff.changed) > 0
                       THEN currentFile ELSE baselineFile
    /\ pc' = "notify"
    /\ UNCHANGED <<currentFile, summaryFile, watchlistFile, sample_size, exitCode,
                   locals, lastDone, cut>>
    /\ UNCHANGED bot

\* line 250: the baseline is replaced by the current file
Main_Rotate ==
    /\ pc = "rotate"
    /\ baselineFile' = currentFile
    /\ pc' = "notify"
    /\ UNCHANGED <<currentFile, summaryFile, watchlistFile, sample_size, exitCode,
                   locals, lastDone, cut>>
    /\ UNCHANGED bot

\* lines 252-263: the message is printed and, when asked for, sent; sending can raise
Main_Notify ==
    /\ pc = "notify"
    /\ lastDone' = [path |-> "compare", current |-> current_geojson]
    /\ cut' = Unset
    /\ \E code \in {"0", "1"} : Exit(code)
    /\ UNCHANGED files
    /\ UNCHANGED bot

Main ==
    \/ Main_LoadCurrent
    \/ Main_InitCopy
    \/ Main_InitSummary
    \/ Main_Compare
    \/ Main_WriteSummary
    \/ Main_Rotate
    \/ Main_Notify

-----------------------------------------------------------------------------
(* The environment of main: the process can be killed, and fetch_parcels.py *)
(* replaces the current file between two runs                               *)

\* what an interrupted run had read and computed, kept while the run has not
\* yet touched the baseline
CutRecord ==
    [current |-> current_geojson,
     baseline |-> IF pc = "check_baseline" THEN baselineFile ELSE previous_geojson,
     computed |-> pc \in {"write_summary", "rotate"},
     diff_all |-> diff_all,
     diff |-> diff]

\* the process is killed between two of its steps
Interrupt ==
    /\ pc \in {"check_baseline", "init_summary", "write_summary", "rotate", "notify"}
    /\ cut' = IF pc \in {"check_baseline", "write_summary", "rotate"}
              THEN CutRecord ELSE Unset
    /\ lastDone' = IF pc \in {"init_summary", "notify"} THEN Unset ELSE lastDone
    /\ Exit("killed")
    /\ UNCHANGED files
    /\ UNCHANGED bot

\* the process is killed while write_text writes the summary (lines 210, 249)
InterruptWrite ==
    /\ pc \in {"init_summary", "write_summary"}
    /\ summaryFile' = PartialSummary
    /\ cut' = IF pc = "write_summary" THEN CutRecord ELSE Unset
    /\ lastDone' = IF pc = "init_summary" THEN Unset ELSE lastDone
    /\ Exit("killed")
    /\ UNCHANGED <<currentFile, baselineFile, watchlistFile, sample_size>>
    /\ UNCHANGED bot

\* the process is killed while copyfile writes the baseline (lines 194, 250)
InterruptCopy ==
    /\ \/ pc = "rotate"
       \/ pc = "check_baseline" /\ baselineFile.kind = "absent"
    /\ baselineFile' = BadJson
    /\ cut' = Unset
    /\ lastDone' = Unset
    /\ Exit("killed")
    /\ UNCHANGED <<currentFile, summaryFile, watchlistFile, sample_size>>
    /\ UNCHANGED bot

\* fetch_parcels.py main, lines 156-159: a new current file replaces the old one,
\* or the write is cut short
Fetch ==
    /\ pc = "exit"
    /\ \E file \in RunDatasets \cup {BadJson} :
          /\ currentFile' = file
          /\ cut' = IF cut # Unset /\ cut.current = file THEN cut ELSE Unset
    /\ pc' = "start"
    /\ UNCHANGED <<baselineFile, summaryFile, watchlistFile, sample_size, exitCode,
                   locals, lastDone>>
    /\ UNCHANGED bot

-----------------------------------------------------------------------------
(* The Telegram query bot (scripts/telegram_query_bot.py): the offset file, *)
(* the polling loop of main, and the server that holds the updates          *)

OffsetText(s) == [kind |-> "text", text |-> s]

\* lines 108-114: no file or an empty file gives None, else int() of the text
read_offset(file) ==
    IF file.kind = "absent" THEN None
    ELSE IF file.text = <<>> THEN None
    ELSE IntV(NumberOf(file.text))

\* lines 117-119: the file holds str(offset)
write_offset(n) == OffsetText(Str(n))

\* an update of the server; allowed_updates asks for these two kinds
Update(id, kind) == [update_id |-> IntV(id), kind |-> kind]
UpdateKinds == {"message", "callback_query"}
\* an entry of a result without update_id
NoIdUpdate == [update_id |-> None, kind |-> "message"]
NoUpdate == [update_id |-> None, kind |-> "none"]

\* the update_ids the server hands out: 9, 10, ...
UpdateIds == 9..(8 + MaxUpdates)

\* the update_ids of a set or list of updates
IdsOf(us) == {u.update_id.n : u \in {v \in us : v.update_id # None}}
IdsIn(batch) == IdsOf(Range(batch))

RECURSIVE Ascending(_)
\* the updates in the order of their update_id
Ascending(us) ==
    IF us = {} THEN <<>>
    ELSE LET m == CHOOSE u \in us : \A v \in us : u.update_id.n <= v.update_id.n
         IN <<m>> \o Ascending(us \ {m})

\* getUpdates on the server: a call with offset confirms, and so forgets, the
\* updates below it; a call without offset confirms nothing.  The payload
\* carries str(offset) (line 76), which the server reads as a number.
Unconfirmed(queue, off) ==
    IF off = None THEN queue
    ELSE {u \in queue : u.update_id.n >= NumberOf(Str(off))}

\* what is unchanged by a step of the bot that touches only botPc and locals
BotHistory == <<handled, raised, skipped, refetched>>

\* line 315: offset = read_offset()
Bot_Start ==
    /\ botPc = "start"
    /\ offset' = read_offset(offsetFile)
    /\ botPc' = "poll"
    /\ UNCHANGED <<offsetFile, serverQueue, nextId, updates, upd, restarts,
                   BotHistory>>
    /\ UNCHANGED detect

\* lines 70-78 and 320: get_updates(offset) returns the unconfirmed updates from
\* offset on, oldest first, with or without an entry that has no update_id
Bot_Poll ==
    /\ botPc = "poll"
    /\ \E extra \in {<<>>, <<NoIdUpdate>>} :
          LET result == Ascending(Unconfirmed(serverQueue, offset)) \o extra
          IN /\ updates' = result
             /\ refetched' = refetched \cup (skipped \cap IdsIn(result))
    /\ serverQueue' = Unconfirmed(serverQueue, offset)
    /\ skipped' = {}
    /\ botPc' = "next"
    /\ UNCHANGED <<offsetFile, nextId, offset, upd, restarts, handled, raised>>
    /\ UNCHANGED detect

\* lines 320 and 333-335: get_updates raises, before or after the server has
\* seen the request
Bot_PollRaises ==
    /\ botPc = "poll"
    /\ serverQueue' \in {serverQueue, Unconfirmed(serverQueue, offset)}
    /\ botPc' = "sleep"
    /\ UNCHANGED <<offsetFile, nextId, offset, updates, upd, restarts, BotHistory>>
    /\ UNCHANGED detect

\* the loop head with lines 323-325 left out: the cursor stays where it was
Bot_Next_NoCursor ==
    /\ botPc = "next"
    /\ IF updates = <<>>
       THEN /\ botPc' = "poll"
            /\ UNCHANGED <<updates, upd>>
       ELSE /\ upd' = Head(updates)
            /\ updates' = Tail(updates)
            /\ botPc' = "handle"
    /\ UNCHANGED <<offset, offsetFile, serverQueue, nextId, restarts, BotHistory>>
    /\ UNCHANGED detect

\* lines 321-324: the for loop takes the next update and, when it has an
\* update_id, sets offset to it plus one
Bot_Next ==
    /\ botPc = "next"
    /\ IF updates = <<>>
       THEN /\ botPc' = "poll"
            /\ UNCHANGED <<offset, updates, upd>>
       ELSE /\ upd' = Head(updates)
            /\ updates' = Tail(updates)
            /\ IF Head(updates).update_id # None
               THEN /\ offset' = IntV(Head(updates).update_id.n + 1)
                    /\ botPc' = "write_offset"
               ELSE /\ offset' = offset
                    /\ botPc' = "handle"
    /\ UNCHANGED <<offsetFile, serverQueue, nextId, restarts, BotHistory>>
    /\ UNCHANGED detect

\* line 325: write_offset(offset)
Bot_WriteOffset ==
    /\ botPc = "write_offset"
    /\ offsetFile' = write_offset(offset)
    /\ botPc' = "handle"
    /\ UNCHANGED <<serverQueue, nextId, offset, updates, upd, restarts, BotHistory>>
    /\ UNCHANGED detect

\* lines 327-330 and 333-335: the handler of the update's kind runs, if it has
\* one; it returns, or it raises and the exception ends the walk through the batch
Bot_Handle ==
    /\ botPc = "handle"
    /\ IF upd.kind \in UpdateKinds
       THEN /\ handled' = IF upd.update_id # None
                          THEN [handled EXCEPT ![upd.update_id.n] = @ + 1]
                          ELSE handled
            /\ \E raises \in BOOLEAN :
                  IF raises
                  THEN /\ botPc' = "sleep"
                       /\ raised' = raised \cup IdsOf({upd})
                       /\ skipped' = skipped \cup IdsIn(updates)
                       /\ updates' = <<>>
                  ELSE /\ botPc' = "next"
                       /\ UNCHANGED <<raised, skipped, updates>>
       ELSE /\ botPc' = "next"
            /\ UNCHANGED <<handled, raised, skipped, updates>>
    /\ UNCHANGED <<offsetFile, serverQueue, nextId, offset, upd, restarts, refetched>>
    /\ UNCHANGED detect

\* line 335: time.sleep(SLEEP_ON_ERROR_SECONDS), then the loop goes on
Bot_Sleep ==
    /\ botPc = "sleep"
    /\ botPc' = "poll"
    /\ UNCHANGED <<offsetFile, serverQueue, nextId, offset, updates, upd, restarts,
                   BotHistory>>
    /\ UNCHANGED detect

\* lines 331-332: KeyboardInterrupt between two statements ends the process (in
\* the try with return 0, in the sleep with the exception itself); its locals die
Bot_Interrupt ==
    /\ botPc \in {"poll", "next", "write_offset", "handle", "sleep"}
    /\ restarts < MaxRestarts
    /\ botPc' = "stopped"
    /\ offset' = None
    /\ updates' = <<>>
    /\ upd' = NoUpdate
    /\ UNCHANGED <<offsetFile, serverQueue, nextId, restarts, BotHistory>>
    /\ UNCHANGED detect

\* the bot is started again
Bot_Restart ==
    /\ botPc = "stopped"
    /\ botPc' = "start"
    /\ restarts' = restarts + 1
    /\ UNCHANGED <<offsetFile, serverQueue, nextId, offset, updates, upd, BotHistory>>
    /\ UNCHANGED detect

\* a user sends a message or presses a button: the server queues an update
Server_Arrive ==
    /\ nextId \in UpdateIds
    /\ \E kind \in UpdateKinds :
          serverQueue' = serverQueue \cup {Update(nextId, kind)}
    /\ nextId' = nextId + 1
    /\ UNCHANGED <<offsetFile, botPc, offset, updates, upd, restarts, BotHistory>>
    /\ UNCHANGED detect

-----------------------------------------------------------------------------
(* Specifications *)

LocalsInit ==
    /\ pc = "start"
    /\ exitCode = "none"
    /\ watchlist = {}
    /\ current_geojson = Unset
    /\ current_idx = <<>>
    /\ previous_geojson = Unset
    /\ previous_idx = <<>>
    /\ diff_all = NoDiff
    /\ diff = NoDiff
    /\ lastDone = Unset
    /\ cut = Unset

\* the bot is not running
BotIdle ==
    /\ offsetFile = Absent
    /\ serverQueue = {}
    /\ nextId = 9
    /\ botPc = "off"
    /\ offset = None
    /\ updates = <<>>
    /\ upd = NoUpdate
    /\ restarts = 0
    /\ handled = [id \in UpdateIds |-> 0]
    /\ raised = {}
    /\ skipped = {}
    /\ refetched = {}

\* the first run of an installation, before or after the first fetch
Init ==
    /\ currentFile \in RunDatasets \cup {Absent}
    /\ baselineFile = Absent
    /\ summaryFile = Absent
    /\ watchlistFile \in WatchFiles
    /\ sample_size \in SampleSizes
    /\ LocalsInit
    /\ BotIdle

Next == Main \/ Interrupt \/ InterruptWrite \/ InterruptCopy \/ Fetch

\* a series of runs, fetches and interruptions
Spec == Init /\ [][Next]_vars

\* any files on disk
InitOneRun ==
    /\ currentFile \in Datasets \cup {Absent, BadJson, BadShape}
    /\ baselineFile \in Datasets \cup {Absent, BadJson, BadShape}
    /\ summaryFile = Absent
    /\ watchlistFile \in OneRunWatchFiles
    /\ sample_size = DefaultSampleSize
    /\ LocalsInit
    /\ BotIdle

\* one run of main, not interrupted
SpecOneRun == InitOneRun /\ [][Main]_vars

\* any current dataset, no baseline or one of one or two parcels, any sample size
InitSamples ==
    /\ currentFile \in Datasets
    /\ baselineFile \in {Absent} \cup {GeoJson(fs) : fs \in SeqsUpTo(RunFeatures, 2)}
    /\ summaryFile = Absent
    /\ watchlistFile \in WatchFiles
    /\ sample_size \in SampleSizeArgs
    /\ LocalsInit
    /\ BotIdle

\* one run of main under each sample size
SpecSamples == InitSamples /\ [][Main]_vars

\* the bot starts on a new installation: no offset file or an empty one, no
\* update yet; detect_changes.py is not running
InitBot ==
    /\ offsetFile \in {Absent, OffsetText(<<>>)}
    /\ serverQueue = {}
    /\ nextId = 9
    /\ botPc = "start"
    /\ offset = None
    /\ updates = <<>>
    /\ upd = NoUpdate
    /\ restarts = 0
    /\ handled = [id \in UpdateIds |-> 0]
    /\ raised = {}
    /\ skipped = {}
    /\ refetched = {}
    /\ currentFile = Absent
    /\ baselineFile = Absent
    /\ summaryFile = Absent
    /\ watchlistFile = Absent
    /\ sample_size = DefaultSampleSize
    /\ LocalsInit

NextBot ==
    \/ Bot_Start
    \/ Bot_Poll
    \/ Bot_PollRaises
    \/ Bot_Next
    \/ Bot_WriteOffset
    \/ Bot_Handle
    \/ Bot_Sleep
    \/ Bot_Interrupt
    \/ Bot_Restart
    \/ Server_Arrive

\* the bot's polling loop, its server and its restarts
SpecBot == InitBot /\ [][NextBot]_vars

-----------------------------------------------------------------------------
(* Properties of compare, filter_to_watchlist and to_index, on the snapshots  *)
(* and lists main holds once it has compared                                  *)

Compared == pc \in {"write_summary", "rotate", "notify"}

Fields == Range(COMPARE_FIELDS)
PrevIds == DOMAIN previous_idx
CurrIds == DOMAIN current_idx
ChangedIds(changed) == {changed[i].parcel_id : i \in 1..Len(changed)}

\* no field difference between the two fingerprints of parcel k
SameFingerprint(k) ==
    /\ previous_idx[k].geometry_hash = current_idx[k].geometry_hash
    /\ \A f \in Fields : previous_idx[k].properties[f] = current_idx[k].properties[f]

\* a comes before b in lexicographic order: they agree up to some position, where
\* a ends and b goes on, or a has the smaller character
LexBefore(a, b) ==
    \E i \in 1..(Len(b)) :
        /\ i <= Len(a) + 1
        /\ \A j \in 1..(i - 1) : a[j] = b[j]
        /\ i = Len(a) + 1 \/ a[i] < b[i]

\* the list holds the members of the set once each, in lexicographic order
IsSortedListOf(list, set) ==
    /\ Range(list) = set
    /\ Len(list) = Cardinality(set)
    /\ \A i, j \in 1..Len(list) : i < j => LexBefore(list[i], list[j])

\* out is the list of the entries of in at the positions kept, in the order of in
IsSelection(out, in, kept) ==
    LET Nth(n) == CHOOSE i \in kept : Cardinality({j \in kept : j <= i}) = n
    IN /\ Len(out) = Cardinality(kept)
       /\ \A n \in 1..Len(out) : out[n] = in[Nth(n)]

\* the positions of the watched ids in a list of ids
WatchedIds(list) == {i \in 1..Len(list) : list[i] \in watchlist}
\* the positions of the entries of watched parcels in a list of modified entries
WatchedEntries(list) == {i \in 1..Len(list) : list[i].parcel_id \in watchlist}

\* C1: compare puts every key of the two snapshots in at most one of added,
\* removed and modified, and a key of both snapshots without a field difference
\* in none of them.
C1_Partition ==
    Compared =>
        LET A == Range(diff_all.added)
            R == Range(diff_all.removed)
            M == ChangedIds(diff_all.changed)
        IN /\ A \cap R = {} /\ A \cap M = {} /\ R \cap M = {}
           /\ Len(diff_all.added) = Cardinality(A)
           /\ Len(diff_all.removed) = Cardinality(R)
           /\ Len(diff_all.changed) = Cardinality(M)
           /\ A \cup R \cup M \subseteq PrevIds \cup CurrIds
           /\ \A k \in PrevIds \cap CurrIds :
                  SameFingerprint(k) => k \notin A \cup R \cup M

\* one parcel is in both snapshots and modified, the other is added
C1_Witness ==
    /\ pc = "write_summary"
    /\ Len(diff_all.changed) = 1
    /\ Len(diff_all.added) = 1
    /\ diff_all.removed = <<>>

\* C2: a key of both snapshots has exactly one modified entry if its digest or one
\* of the fixed attributes differs and none otherwise; the entry holds a geometry
\* difference iff the digests differ and a difference for exactly the attributes
\* that differ, each with the previous value as before and the current value as
\* after; the entries are in ascending key order.
C2_Modified ==
    Compared =>
        LET ch == diff_all.changed
        IN /\ \A k \in PrevIds \cap CurrIds :
                  Cardinality({i \in 1..Len(ch) : ch[i].parcel_id = k})
                      = IF SameFingerprint(k) THEN 0 ELSE 1
           /\ \A i \in 1..Len(ch) :
                  LET k == ch[i].parcel_id
                      c == ch[i].changes
                  IN /\ k \in PrevIds \cap CurrIds
                     /\ DOMAIN c \subseteq Fields \cup {"geometry"}
                     /\ "geometry" \in DOMAIN c
                            <=> previous_idx[k].geometry_hash
                                    # current_idx[k].geometry_hash
                     /\ "geometry" \in DOMAIN c =>
                            /\ c["geometry"].before = previous_idx[k].geometry_hash
                            /\ c["geometry"].after = current_idx[k].geometry_hash
                     /\ \A f \in Fields :
                            /\ f \in DOMAIN c
                                   <=> previous_idx[k].properties[f]
                                           # current_idx[k].properties[f]
                            /\ f \in DOMAIN c =>
                                   /\ c[f].before = previous_idx[k].properties[f]
                                   /\ c[f].after = current_idx[k].properties[f]
           /\ \A i, j \in 1..Len(ch) :
                  i < j => LexBefore(ch[i].parcel_id, ch[j].parcel_id)

\* both parcels are modified: "10" in its geometry alone, "9" in two attributes alone
C2_Witness ==
    /\ pc = "write_summary"
    /\ Len(diff_all.changed) = 2
    /\ diff_all.changed[1].parcel_id = Id10
    /\ DOMAIN diff_all.changed[1].changes = {"geometry"}
    /\ diff_all.changed[2].parcel_id = Id9
    /\ DOMAIN diff_all.changed[2].changes = {"STREET", "NAME_ONE"}

\* C3: added is the list of the keys of current that are not in previous, removed
\* the list of the keys of previous that are not in current, each without
\* duplicates and in lexicographic order; an empty previous snapshot makes every
\* current key added, an empty current snapshot every previous key removed.
C3_AddedRemoved ==
    Compared =>
        /\ IsSortedListOf(diff_all.added, CurrIds \ PrevIds)
        /\ IsSortedListOf(diff_all.removed, PrevIds \ CurrIds)
        /\ PrevIds = {} => Range(diff_all.added) = CurrIds
        /\ CurrIds = {} => Range(diff_all.removed) = PrevIds

\* against an empty baseline the parcels "10" and "9" are added, in that order
C3_Witness ==
    /\ pc = "write_summary"
    /\ previous_geojson = GeoJson(<<>>)
    /\ diff_all.added = <<Id10, Id9>>

\* C6: with a non-empty watchlist, filter_to_watchlist returns exactly the added
\* keys, removed keys and modified entries whose key is in the watchlist, in the
\* order of its input.
C6_Filter ==
    (Compared /\ watchlist # {}) =>
        /\ IsSelection(diff.added, diff_all.added, WatchedIds(diff_all.added))
        /\ IsSelection(diff.removed, diff_all.removed, WatchedIds(diff_all.removed))
        /\ IsSelection(diff.changed, diff_all.changed,
                       WatchedEntries(diff_all.changed))
        /\ Range(diff.added) \cup Range(diff.removed) \cup ChangedIds(diff.changed)
               \subseteq watchlist

\* only "9" is watched: of the removed "10" and "9" the filter keeps "9"
C6_Witness ==
    /\ pc = "write_summary"
    /\ watchlist = {Id9}
    /\ diff_all.removed = <<Id10, Id9>>
    /\ diff.removed = <<Id9>>

\* the features of the loaded current dataset
CurrentFeatures == current_geojson.features

\* the PARCEL_ID of a feature is absent or empty
NoIdentifier(ft) ==
    \/ "PARCEL_ID" \notin DOMAIN ft.properties
    \/ ft.properties["PARCEL_ID"] = None
    \/ ft.properties["PARCEL_ID"] = StrV(<<>>)

KeyOf(ft) == Str(ft.properties["PARCEL_ID"])

\* C8: to_index returns one fingerprint per resolved key: a feature whose
\* PARCEL_ID is absent or empty is skipped, and of the features that resolve to
\* one key the last in input order gives the fingerprint.
C8_Index ==
    pc \in {"check_baseline", "init_summary", "write_summary", "rotate", "notify"} =>
        LET fs == CurrentFeatures
            resolved == {i \in 1..Len(fs) : ~NoIdentifier(fs[i])}
        IN /\ CurrIds = {KeyOf(fs[i]) : i \in resolved}
           /\ \A k \in CurrIds :
                  LET last == CHOOSE i \in resolved :
                                  /\ KeyOf(fs[i]) = k
                                  /\ \A j \in resolved : KeyOf(fs[j]) = k => j <= i
                  IN /\ current_idx[k].parcel_id = k
                     /\ current_idx[k].geometry_hash = geometry_hash(fs[last])
                     /\ \A f \in Fields :
                            current_idx[k].properties[f]
                                = Get(fs[last].properties, f)

\* two features resolve to the key "9" and the second one's STREET is indexed
C8_Witness ==
    /\ pc = "check_baseline"
    /\ Len(CurrentFeatures) = 2
    /\ CurrentFeatures[1].properties["STREET"] = StrV("Main St")
    /\ CurrIds = {Id9}
    /\ current_idx[Id9].properties["STREET"] = StrV("1st St")

-----------------------------------------------------------------------------
(* Properties of the run *)

Stats == summaryFile.data.stats
Details == summaryFile.data.details

\* C7: in the summary of a run that compared, the counts are the lengths of the
\* filtered detail lists, the all_ counts the lengths of the unfiltered lists,
\* no filtered count exceeds its unfiltered count, and the totals are the
\* numbers of keys of the two snapshots.
C7_Counts ==
    pc \in {"rotate", "notify"} =>
        /\ summaryFile.kind = "json"
        /\ summaryFile.data.status = "ok"
        /\ Details = [added |-> diff.added, removed |-> diff.removed,
                      changed |-> diff.changed]
        /\ Stats.added_count = Len(Details.added)
        /\ Stats.removed_count = Len(Details.removed)
        /\ Stats.changed_count = Len(Details.changed)
        /\ Stats.all_added_count = Len(diff_all.added)
        /\ Stats.all_removed_count = Len(diff_all.removed)
        /\ Stats.all_changed_count = Len(diff_all.changed)
        /\ Stats.added_count <= Stats.all_added_count
        /\ Stats.removed_count <= Stats.all_removed_count
        /\ Stats.changed_count <= Stats.all_changed_count
        /\ Stats.current_total = Cardinality(CurrIds)
        /\ Stats.previous_total = Cardinality(PrevIds)

\* two parcels were removed and the summary counts the watched one of them
C7_Witness ==
    /\ pc = "rotate"
    /\ Stats.all_removed_count = 2
    /\ Stats.removed_count = 1
    /\ Stats.previous_total = 2
    /\ Stats.current_total = 0

Malformed(file) == file.kind \in {"badjson", "badshape"}

ZeroCounts(stats) ==
    /\ stats.added_count = 0
    /\ stats.removed_count = 0
    /\ stats.changed_count = 0

\* C4: a run that compares replaces the baseline by the dataset it read as
\* current, changes or not; so the previous dataset of a run is the dataset the
\* last completed run read as current, and a run on that same dataset finds no
\* added, removed or modified key.
C4_Rotation ==
    /\ pc = "notify" => baselineFile = current_geojson
    /\ (Compared /\ lastDone # Unset) => previous_geojson = lastDone.current
    /\ (Compared /\ lastDone # Unset /\ current_geojson = lastDone.current) =>
           /\ diff_all = NoDiff
           /\ diff = NoDiff
    /\ (pc \in {"rotate", "notify"} /\ lastDone # Unset
            /\ current_geojson = lastDone.current) =>
           /\ ZeroCounts(Stats)
           /\ Stats.all_added_count = 0
           /\ Stats.all_removed_count = 0
           /\ Stats.all_changed_count = 0

\* a run after a completed comparing run, on the dataset that run read, has
\* found nothing and has rotated the baseline
C4_Witness ==
    /\ pc = "notify"
    /\ lastDone # Unset
    /\ lastDone.path = "compare"
    /\ current_geojson = lastDone.current
    /\ current_geojson.features # <<>>
    /\ baselineFile = current_geojson

\* C5: a run that finds no baseline computes no diff, leaves a summary with
\* status initialized and zero counts and a baseline equal to the current
\* dataset; the run after it finds that baseline and compares.
C5_Initialization ==
    /\ pc = "init_summary" =>
           /\ previous_geojson = Unset
           /\ diff_all = NoDiff
           /\ baselineFile = current_geojson
    /\ (pc = "exit" /\ exitCode = "0" /\ lastDone # Unset /\ lastDone.path = "init") =>
           /\ summaryFile.kind = "json"
           /\ summaryFile.data.status = "initialized"
           /\ ZeroCounts(Stats)
           /\ baselineFile = lastDone.current
           /\ baselineFile = currentFile
    /\ (lastDone # Unset /\ lastDone.path = "init") =>
           /\ pc # "init_summary"
           /\ pc \in {"exit", "start", "check_baseline", "write_summary", "rotate"}
                  => baselineFile = lastDone.current

\* the run after an initialization run has compared and found an added parcel
C5_Witness ==
    /\ pc = "write_summary"
    /\ lastDone # Unset
    /\ lastDone.path = "init"
    /\ previous_geojson = lastDone.current
    /\ diff_all.added # <<>>

\* C10: after a run was interrupted before it touched the baseline, the baseline
\* is the one that run started with, and the next run on the same current
\* dataset reads that baseline and computes the diff the interrupted run had
\* computed, or would have.
C10_Interrupted ==
    cut # Unset =>
        /\ pc \in {"exit", "start", "check_baseline", "write_summary", "rotate"}
               => baselineFile = cut.baseline
        /\ pc \in {"write_summary", "rotate"} =>
               /\ current_geojson = cut.current
               /\ previous_geojson = cut.baseline
               /\ cut.computed =>
                      /\ diff_all = cut.diff_all
                      /\ diff = cut.diff
               /\ diff_all = compare(to_index(cut.baseline), to_index(cut.current))

\* the run after one interrupted between its diff and the rotation has found the
\* same modified parcel again
C10_Witness ==
    /\ pc = "write_summary"
    /\ cut # Unset
    /\ cut.computed
    /\ diff_all.changed # <<>>
    /\ diff_all = cut.diff_all

-----------------------------------------------------------------------------
(* Properties of the samples *)

Samples == summaryFile.data.samples

IsPrefixOf(short, long) ==
    /\ Len(short) <= Len(long)
    /\ \A i \in 1..Len(short) : short[i] = long[i]

\* C11: for every sample size each sample list of the summary has at most
\* sample-size entries and is a prefix of its detail list (for the modified
\* entries: of the ids of the detail list), and the detail lists are the full
\* filtered lists.
C11_Samples ==
    pc \in {"rotate", "notify"} =>
        /\ Len(Samples.added) <= sample_size
        /\ Len(Samples.removed) <= sample_size
        /\ Len(Samples.changed) <= sample_size
        /\ IsPrefixOf(Samples.added, Details.added)
        /\ IsPrefixOf(Samples.removed, Details.removed)
        /\ IsPrefixOf(Samples.changed, ParcelIds(Details.changed))
        /\ Details = [added |-> diff.added, removed |-> diff.removed,
                      changed |-> diff.changed]

\* the part of C11 that the code keeps under every sample size: the samples are
\* prefixes of the detail lists and the detail lists are the full filtered lists;
\* and a sample size that is not negative bounds the samples
C11_PrefixAndDetails ==
    pc \in {"rotate", "notify"} =>
        /\ IsPrefixOf(Samples.added, Details.added)
        /\ IsPrefixOf(Samples.removed, Details.removed)
        /\ IsPrefixOf(Samples.changed, ParcelIds(Details.changed))
        /\ Details = [added |-> diff.added, removed |-> diff.removed,
                      changed |-> diff.changed]
        /\ sample_size >= 0 =>
               /\ Len(Samples.added) <= sample_size
               /\ Len(Samples.removed) <= sample_size
               /\ Len(Samples.changed) <= sample_size

\* with --sample-size -1 and two added parcels the sample holds one of them
C11_NegativeSample ==
    /\ pc = "rotate"
    /\ sample_size = -1
    /\ Len(Details.added) = 2
    /\ Len(Samples.added) = 1

-----------------------------------------------------------------------------
(* Properties of the fingerprints' attributes *)

\* the feature of the dataset that gives key k its fingerprint: the last one
LastFeature(geojson, k) ==
    LET fs == geojson.features
        giving == {i \in 1..Len(fs) : ~NoIdentifier(fs[i]) /\ KeyOf(fs[i]) = k}
    IN fs[CHOOSE i \in giving : \A j \in giving : j <= i]

\* every attribute of COMPARE_FIELDS is in the fingerprint, None for a property
\* the feature does not have
AllFieldsRecorded(idx, geojson) ==
    \A k \in DOMAIN idx :
        /\ DOMAIN idx[k].properties = Fields
        /\ \A f \in Fields :
               f \notin DOMAIN LastFeature(geojson, k).properties
                   => idx[k].properties[f] = None

\* the feature does not have the property f
Missing(ft, f) == f \notin DOMAIN ft.properties

\* the feature has the property f with the empty string as its value
Empty(ft, f) == f \in DOMAIN ft.properties /\ ft.properties[f] = StrV("")

\* the modified list reports field f of parcel k with these two values
Reported(changed, k, f, before, after) ==
    \E i \in 1..Len(changed) :
        /\ changed[i].parcel_id = k
        /\ f \in DOMAIN changed[i].changes
        /\ changed[i].changes[f] = [before |-> before, after |-> after]

\* C12: each fingerprint holds every attribute of COMPARE_FIELDS, with None for
\* a property the feature lacks; for a key in both snapshots an attribute that
\* is missing on one side and the empty string on the other is reported as a
\* field difference between None and the empty string.
C12_MissingRecorded ==
    Compared =>
        /\ AllFieldsRecorded(previous_idx, previous_geojson)
        /\ AllFieldsRecorded(current_idx, current_geojson)
        /\ \A k \in PrevIds \cap CurrIds : \A f \in Fields :
               LET prev == LastFeature(previous_geojson, k)
                   curr == LastFeature(current_geojson, k)
               IN /\ Missing(prev, f) /\ Empty(curr, f)
                      => Reported(diff_all.changed, k, f, None, StrV(""))
                  /\ Empty(prev, f) /\ Missing(curr, f)
                      => Reported(diff_all.changed, k, f, StrV(""), None)

\* parcel "9" has no NAME_ONE in the baseline and an empty NAME_ONE in the
\* current dataset, and the difference is reported
C12_Witness ==
    /\ Compared
    /\ Id9 \in PrevIds \cap CurrIds
    /\ Missing(LastFeature(previous_geojson, Id9), "NAME_ONE")
    /\ Empty(LastFeature(current_geojson, Id9), "NAME_ONE")
    /\ Reported(diff_all.changed, Id9, "NAME_ONE", None, StrV(""))

-----------------------------------------------------------------------------
(* Properties of a run without watchlist *)

\* the watchlist file is absent or has only blank and comment lines
NoIds(file) ==
    \/ file.kind = "absent"
    \/ \A i \in 1..Len(file.lines) : file.lines[i].blank \/ file.lines[i].comment

\* C13: an absent watchlist file and one without ids both load as the empty
\* watchlist; with the empty watchlist the filtered lists are the unfiltered
\* ones unchanged, the summary's filtered counts and details equal the
\* unfiltered ones, and watchlist_enabled is false.
C13_NoFiltering ==
    /\ pc \in {"check_baseline", "init_summary", "write_summary", "rotate", "notify"}
           /\ NoIds(watchlistFile)
           => watchlist = {}
    /\ Compared /\ watchlist = {} => diff = diff_all
    /\ pc \in {"rotate", "notify"} /\ watchlist = {} =>
           /\ Details.added = diff_all.added
           /\ Details.removed = diff_all.removed
           /\ Details.changed = diff_all.changed
           /\ Stats.added_count = Stats.all_added_count
           /\ Stats.removed_count = Stats.all_removed_count
           /\ Stats.changed_count = Stats.all_changed_count
           /\ summaryFile.data.scope.watchlist_enabled = FALSE

\* a watchlist file of a comment and a blank line, two parcels added, and both
\* in the summary's details
C13_Witness ==
    /\ pc = "rotate"
    /\ watchlistFile = WatchFile(<<CommentLine, BlankLine>>)
    /\ watchlist = {}
    /\ Len(diff_all.added) = 2
    /\ Details.added = diff_all.added
    /\ summaryFile.data.scope.watchlist_enabled = FALSE

-----------------------------------------------------------------------------
(* Properties of the bot's polling loop *)

\* the loop is at a statement other than the write of line 325, which follows
\* the assignment of line 324 at once
BotBetweenUpdates == botPc \in {"poll", "next", "handle", "sleep"}

\* the cursor is past the update and on disk when the update's handler starts
CursorBeforeHandler ==
    botPc = "handle" /\ upd.update_id # None =>
        /\ offset = IntV(upd.update_id.n + 1)
        /\ offsetFile = write_offset(IntV(upd.update_id.n + 1))

\* the offset file read back is the offset in memory
PersistedIsInMemory == BotBetweenUpdates => read_offset(offsetFile) = offset

\* no handler is called twice for one update
AtMostOnce == \A id \in UpdateIds : handled[id] <= 1

\* the updates a handler's exception left unwalked are still on the server and
\* not below the cursor on disk
SkippedKept ==
    /\ skipped \subseteq IdsOf(serverQueue)
    /\ \A id \in skipped :
           read_offset(offsetFile) # None /\ read_offset(offsetFile).n <= id

\* a poll that returns a batch returns no update whose handler has run, and
\* returns every update that an exception left unwalked
PollResult ==
    botPc = "poll" /\ botPc' = "next" =>
        /\ \A id \in IdsIn(updates') : handled[id] = 0
        /\ IdsIn(updates') \cap raised = {}
        /\ skipped \subseteq IdsIn(updates')

\* the handler of an update that raised is not called again
RaisedStaysHandledOnce == \A id \in raised : handled'[id] = handled[id]

\* C14: for an update with an update_id the cursor is update_id + 1 and is in
\* the offset file when the update's handler runs, and between two updates the
\* offset file holds the offset in memory; an update whose handler raised is
\* never returned by a later poll nor handled again, no update is handled
\* twice, and the updates that followed the raising one in its batch stay on
\* the server and are returned by the next poll that returns a batch.
C14_CursorBeforeHandler ==
    /\ [](CursorBeforeHandler /\ PersistedIsInMemory /\ AtMostOnce /\ SkippedKept)
    /\ [][PollResult /\ RaisedStaysHandledOnce]_vars

\* the handler of update 9 raised with update 10 behind it in the batch; 10 was
\* returned again and handled, 9 was handled once, and the cursor is 11
C14_Witness ==
    /\ 9 \in raised
    /\ handled[9] = 1
    /\ 10 \in refetched
    /\ handled[10] = 1
    /\ offset = IntV(11)
    /\ offsetFile = OffsetText(<<1, 1>>)
    /\ botPc = "next"

=============================================================================
